---- MODULE Spec2Model ----
(***************************************************************************)
(* Two scenes of the application:                                          *)
(*   - the Search scene (app/scenes/Search/Search.tsx): route-driven,      *)
(*     paginated, deduplicated search fetches;                            *)
(*   - the Shared document scene (app/scenes/Document/Shared.tsx): fetch   *)
(*     of a shared document and the selection of the render state.        *)
(* The two scenes share no state; each has its own specification          *)
(* (Spec for Search, SharedSpec for the shared document).                 *)
(***************************************************************************)
EXTENDS Integers, Sequences, FiniteSets, Bags, TLC

VARIABLES
    \* ---- Search scene: props given by the router
    mounted,        \* componentDidMount has run
    routeTerm,      \* props.match.params.term (encoded path segment)
    routeSearch,    \* props.location.search, keyed by parameter name
    \* ---- Search scene: fields of the component
    query,          \* this.query
    params,         \* this.params (URLSearchParams)
    offset,         \* this.offset
    allowLoadMore,  \* this.allowLoadMore
    isLoading,      \* this.isLoading
    lastQuery,      \* this.lastQuery
    lastParams,     \* this.lastParams
    inflight,       \* bag of the documents.search calls awaiting their result
    \* ---- Search scene: history (observation only, read by no guard)
    lastFetch,      \* the most recent fetchResults invocation; has a call failed since
    last,           \* the most recent step: its name, its fetchResults invocations
    \* ---- Shared document scene
    shMounted,      \* the fetch effect has run once
    shareId,        \* props.match.params.shareId
    documentSlug,   \* props.match.params.documentSlug
    pathname,       \* props.location.pathname
    edit,           \* searchParams.get("edit")
    canUpdate,      \* documents for which the policy grants update
    response,       \* React state: response
    error,          \* React state: error
    shInflight,     \* fetchWithSharedTree calls awaiting their result, oldest first
    cookie,         \* the postLoginRedirectPath cookie
    view,           \* what the last render returned
    \* ---- Shared document scene: history (observation only)
    authPath,       \* props.location.pathname when a fetch last failed with AuthorizationError
    \* ---- Shared document scene: the useDocumentId hook
    hookResponse,   \* the response argument (undefined, or with or without sharedTree)
    hookSlug,       \* the documentSlug argument, as a sequence of characters
    documentId      \* the value the hook returned at the last render

searchVars == <<mounted, routeTerm, routeSearch, query, params, offset,
                allowLoadMore, isLoading, lastQuery, lastParams, inflight,
                lastFetch, last>>
sharedVars == <<shMounted, shareId, documentSlug, pathname, edit, canUpdate,
                response, error, shInflight, cookie, view, authPath>>
hookVars == <<hookResponse, hookSlug, documentId>>
vars == <<searchVars, sharedVars, hookVars>>

----------------------------------------------------------------------------
(* Bounds of the model *)

\* at most this many documents.search calls are outstanding at once
MaxInFlight == 2
\* the offset is followed up to this many full pages
MaxPages == 2
\* a sharedTree has at most this many nodes
MaxNodes == 4

----------------------------------------------------------------------------
(* Search scene: values *)

\* imported from ~/stores/BaseStore (Search.tsx line 14)
DEFAULT_PAGINATION_LIMIT == 25

\* URLSearchParams.get of a key that is not present
Null == "<null>"
\* the JavaScript value undefined
Undefined == "<undefined>"

\* the empty query string
NoSearch ==
    [collectionId |-> Null, userId |-> Null, dateFilter |-> Null,
     includeArchived |-> Null]

\* query strings the router can hand to the scene
Searches ==
    { NoSearch,
      [NoSearch EXCEPT !.includeArchived = "false"] }

\* filter selections: the key and the value handed to handleFilterChange
Selections == { <<"includeArchived", "true">>, <<"includeArchived", Undefined>> }

\* route term segments the router can hand to the scene
Terms == {"", "b%20c"}

\* texts typed into the search input
Typed == {"", "b c"}

\* result counts the search service can return
Counts == {0, DEFAULT_PAGINATION_LIMIT - 1, DEFAULT_PAGINATION_LIMIT,
           DEFAULT_PAGINATION_LIMIT + 1}

decodeURIComponentSafe(term) ==
    IF term = "b%20c" THEN "b c" ELSE term

searchUrl(text) ==
    IF text = "b c" THEN "b%20c" ELSE text

\* lastParams before the first call: equal to no parameter set
NoParams ==
    [offset |-> -1, limit |-> -1, dateFilter |-> Undefined,
     includeArchived |-> FALSE, includeDrafts |-> FALSE,
     collectionId |-> Undefined, userId |-> Undefined]

includeArchived(p) == p.includeArchived = "true"

collectionId(p) ==
    IF p.collectionId \notin {Null, ""} THEN p.collectionId ELSE Undefined

userId(p) ==
    IF p.userId \notin {Null, ""} THEN p.userId ELSE Undefined

dateFilter(p) ==
    IF p.dateFilter \notin {Null, ""} THEN p.dateFilter ELSE Undefined

\* BuildParams, the page left out of the compared parameter set
BuildParamsNoOffset(s) ==
    [offset |-> 0,
     limit |-> DEFAULT_PAGINATION_LIMIT,
     dateFilter |-> dateFilter(s.params),
     includeArchived |-> includeArchived(s.params),
     includeDrafts |-> TRUE,
     collectionId |-> collectionId(s.params),
     userId |-> userId(s.params)]

\* the parameter set fetchResults builds
BuildParams(s) ==
    [offset |-> s.offset,
     limit |-> DEFAULT_PAGINATION_LIMIT,
     dateFilter |-> dateFilter(s.params),
     includeArchived |-> includeArchived(s.params),
     includeDrafts |-> TRUE,
     collectionId |-> collectionId(s.params),
     userId |-> userId(s.params)]

\* the call documents.search(query, params) of fetchResults
SearchCall(s, p) == [query |-> s.query, params |-> p]

\* the filters of a parameter set (everything but the page)
Filters(p) == [p EXCEPT !.offset = 0]

----------------------------------------------------------------------------
(* Search scene: history records *)

NoCall == [query |-> "", params |-> NoParams]

NoDone ==
    [ok |-> FALSE, count |-> -1, call |-> NoCall, added |-> "",
     rejected |-> FALSE]

NoFetch == [valid |-> FALSE, query |-> "", params |-> NoParams, failed |-> FALSE]

\* the component's fields as one record, with the log of the running step
Fields ==
    [query |-> query, params |-> params, offset |-> offset,
     allowLoadMore |-> allowLoadMore, isLoading |-> isLoading,
     lastQuery |-> lastQuery, lastParams |-> lastParams,
     inflight |-> inflight, thrown |-> FALSE, lastFetch |-> lastFetch,
     log |-> <<>>]

----------------------------------------------------------------------------
(* Search scene: methods of the component, as functions of its fields *)

\* fetchResults without the "we just requested this thing" guard
fetchResultsNoGuard(s) ==
    IF s.query # ""
    THEN LET p == BuildParams(s) IN
         [s EXCEPT !.isLoading = TRUE,
                   !.lastQuery = s.query,
                   !.lastParams = p,
                   !.inflight = @ (+) SetToBag({SearchCall(s, p)})]
    ELSE [s EXCEPT !.isLoading = FALSE, !.lastQuery = s.query]

\* fetchResults leaving isLoading as it is when the query is empty
fetchResultsEmptyKeepsLoading(s) ==
    IF s.query # ""
    THEN LET p == BuildParams(s) IN
         IF s.lastQuery = s.query /\ p = s.lastParams
         THEN [s EXCEPT !.isLoading = FALSE]
         ELSE [s EXCEPT !.isLoading = TRUE,
                        !.lastQuery = s.query,
                        !.lastParams = p,
                        !.inflight = @ (+) SetToBag({SearchCall(s, p)})]
    ELSE [s EXCEPT !.lastQuery = s.query]

\* fetchResults, up to its await (the call to documents.search is made here)
fetchResults(s) ==
    IF s.query # ""
    THEN LET p == BuildParams(s) IN
         IF s.lastQuery = s.query /\ p = s.lastParams
         THEN [s EXCEPT !.isLoading = FALSE]
         ELSE [s EXCEPT !.isLoading = TRUE,
                        !.lastQuery = s.query,
                        !.lastParams = p,
                        !.inflight = @ (+) SetToBag({SearchCall(s, p)})]
    ELSE [s EXCEPT !.isLoading = FALSE, !.lastQuery = s.query]

\* the calls bag b holds beyond those of bag a
NewCalls(a, b) == {c \in BagToSet(b) : CopiesIn(c, b) > CopiesIn(c, a)}

\* one invocation of fetchResults by method `by`, entered in the step's log
Invoke(s, by) ==
    LET t == fetchResults(s)
        new == NewCalls(s.inflight, t.inflight)
        e == [by |-> by,
              query |-> s.query,
              offset |-> s.offset,
              allowLoadMore |-> s.allowLoadMore,
              params |-> BuildParams(s),
              issued |-> BagCardinality(t.inflight) - BagCardinality(s.inflight),
              call |-> IF new = {} THEN NoCall ELSE CHOOSE c \in new : TRUE,
              loadingAfter |-> t.isLoading,
              lastQueryAfter |-> t.lastQuery,
              offsetAfter |-> t.offset,
              allowAfter |-> t.allowLoadMore]
    IN  [t EXCEPT !.log = Append(s.log, e),
                  !.lastFetch = [valid |-> TRUE, query |-> s.query,
                                 params |-> BuildParams(s), failed |-> FALSE]]

\* handleQueryChange without the reset of the page
handleQueryChangeKeepsOffset(s, search) ==
    Invoke([s EXCEPT !.params = search,
                     !.isLoading = TRUE],
           "handleQueryChange")

handleQueryChange(s, search) ==
    Invoke([s EXCEPT !.params = search,
                     !.offset = 0,
                     !.allowLoadMore = TRUE,
                     !.isLoading = TRUE],
           "handleQueryChange")

handleTermChange(s, term) ==
    LET q == decodeURIComponentSafe(term) IN
    Invoke([s EXCEPT !.query = IF q # "" THEN q ELSE "",
                     !.offset = 0,
                     !.allowLoadMore = TRUE,
                     !.isLoading = TRUE],
           "handleTermChange")

componentDidMount(s, term, search) ==
    LET t == handleTermChange(s, term) IN
    IF search # NoSearch THEN handleQueryChange(t, search) ELSE t

componentDidUpdate(s, pTerm, pSearch, term, search) ==
    LET t == IF pSearch # search THEN handleQueryChange(s, search) ELSE s IN
    IF pTerm # term THEN handleTermChange(t, term) ELSE t

\* loadMoreResults not looking at isLoading
loadMoreResultsWhileLoading(s) ==
    IF ~s.allowLoadMore
    THEN s
    ELSE Invoke(s, "loadMoreResults")

loadMoreResults(s) ==
    IF ~s.allowLoadMore \/ s.isLoading
    THEN s
    ELSE Invoke(s, "loadMoreResults")

\* handleKeyDown, Enter: the fetchResults call that follows updateLocation
handleKeyDown(s) == Invoke(s, "handleKeyDown")

\* handleFilterChange keeping the empty values in the query string
handleFilterChangeKeepsEmpty(search, key, value) ==
    [search EXCEPT ![key] = value]

\* handleFilterChange: the query string history.replace is given
handleFilterChange(search, key, value) ==
    LET merged == [search EXCEPT ![key] = value] IN
    [k \in DOMAIN merged |->
        IF merged[k] \in {"", Undefined} THEN Null ELSE merged[k]]

\* fetchSucceeded taking a page of exactly the limit for the last one
fetchSucceededOffByOne(s, count) ==
    IF count = 0 \/ count <= DEFAULT_PAGINATION_LIMIT
    THEN [s EXCEPT !.allowLoadMore = FALSE, !.isLoading = FALSE]
    ELSE [s EXCEPT !.offset = @ + DEFAULT_PAGINATION_LIMIT, !.isLoading = FALSE]

\* fetchResults after its await, the search having returned `count` results
fetchSucceeded(s, count) ==
    IF count = 0 \/ count < DEFAULT_PAGINATION_LIMIT
    THEN [s EXCEPT !.allowLoadMore = FALSE, !.isLoading = FALSE]
    ELSE [s EXCEPT !.offset = @ + DEFAULT_PAGINATION_LIMIT, !.isLoading = FALSE]

\* fetchFailed keeping the record of the last query
fetchFailedKeepsLastQuery(s) ==
    [s EXCEPT !.thrown = TRUE, !.isLoading = FALSE]

\* fetchFailed without the finally block
fetchFailedKeepsLoading(s) ==
    [s EXCEPT !.lastQuery = "", !.thrown = TRUE]

\* fetchResults after its await, the search having thrown
fetchFailed(s) ==
    [s EXCEPT !.lastQuery = "", !.thrown = TRUE, !.isLoading = FALSE]

\* the sequence without its i-th element
Remove(seq, i) == SubSeq(seq, 1, i - 1) \o SubSeq(seq, i + 1, Len(seq))

----------------------------------------------------------------------------
(* Search scene: steps.  A change of the route re-renders the scene and    *)
(* runs componentDidUpdate before any other event is handled, so a step    *)
(* that changes the route includes that update.                            *)

\* the fields after a step, and its record: the step's name, whether its
\* fetchResults calls come right after a completion, those calls, and the
\* completion the step handled
Commit(t, op, done) ==
    /\ BagCardinality(t.inflight) <= MaxInFlight
    /\ query' = t.query
    /\ params' = t.params
    /\ offset' = t.offset
    /\ allowLoadMore' = t.allowLoadMore
    /\ isLoading' = t.isLoading
    /\ lastQuery' = t.lastQuery
    /\ lastParams' = t.lastParams
    /\ inflight' = t.inflight
    /\ lastFetch' = t.lastFetch
    /\ last' = [op |-> op,
                after |-> IF last.op \in {"success", "failure"} /\ t.log # <<>>
                          THEN last.op ELSE "",
                log |-> t.log,
                done |-> done]

SearchInit ==
    /\ mounted = FALSE
    /\ routeTerm \in Terms
    /\ routeSearch \in Searches
    /\ query = decodeURIComponentSafe(routeTerm)
    /\ params = NoSearch
    /\ offset = 0
    /\ allowLoadMore = TRUE
    /\ isLoading = FALSE
    /\ lastQuery = ""
    /\ lastParams = NoParams
    /\ inflight = EmptyBag
    /\ lastFetch = NoFetch
    /\ last = [op |-> "constructor", after |-> "", log |-> <<>>, done |-> NoDone]

ComponentDidMount ==
    /\ ~mounted
    /\ mounted' = TRUE
    /\ Commit(componentDidMount(Fields, routeTerm, routeSearch),
              "componentDidMount", NoDone)
    /\ UNCHANGED <<routeTerm, routeSearch>>
    /\ UNCHANGED <<sharedVars, hookVars>>

\* the router hands the scene another location (link, back, forward)
ComponentDidUpdate ==
    /\ mounted
    /\ \E term \in Terms, search \in Searches :
          /\ <<term, search>> # <<routeTerm, routeSearch>>
          /\ routeTerm' = term
          /\ routeSearch' = search
          /\ Commit(componentDidUpdate(Fields, routeTerm, routeSearch, term,
                                       search),
                    "componentDidUpdate", NoDone)
    /\ UNCHANGED mounted
    /\ UNCHANGED <<sharedVars, hookVars>>

\* Enter in the search input holding `text`
HandleKeyDown ==
    /\ mounted
    /\ \E text \in Typed :
          /\ routeTerm' = searchUrl(text)
          /\ Commit(componentDidUpdate(handleKeyDown(Fields), routeTerm,
                                       routeSearch, routeTerm', routeSearch),
                    "handleKeyDown", NoDone)
    /\ UNCHANGED <<mounted, routeSearch>>
    /\ UNCHANGED <<sharedVars, hookVars>>

\* a filter is selected (the filters are on screen with a non-empty query)
HandleFilterChange ==
    /\ mounted
    /\ query # ""
    /\ \E sel \in Selections :
          /\ routeSearch' = handleFilterChange(routeSearch, sel[1], sel[2])
          /\ Commit(componentDidUpdate(Fields, routeTerm, routeSearch,
                                       routeTerm, routeSearch'),
                    "handleFilterChange", NoDone)
    /\ UNCHANGED <<mounted, routeTerm>>
    /\ UNCHANGED <<sharedVars, hookVars>>

\* the scroll sentinel enters the viewport
LoadMoreResults ==
    /\ mounted
    /\ Commit(loadMoreResults(Fields), "loadMoreResults", NoDone)
    /\ UNCHANGED <<mounted, routeTerm, routeSearch>>
    /\ UNCHANGED <<sharedVars, hookVars>>

\* an outstanding search returns `count` results
FetchSuccess ==
    /\ \E c \in BagToSet(inflight), count \in Counts :
          /\ count >= DEFAULT_PAGINATION_LIMIT
                => offset < MaxPages * DEFAULT_PAGINATION_LIMIT
          /\ Commit(fetchSucceeded([Fields EXCEPT
                                      !.inflight = @ (-) SetToBag({c})],
                                   count),
                    "success",
                    [ok |-> TRUE, count |-> count, call |-> c,
                     added |-> query, rejected |-> FALSE])
    /\ UNCHANGED <<mounted, routeTerm, routeSearch>>
    /\ UNCHANGED <<sharedVars, hookVars>>

\* an outstanding search throws
FetchFailure ==
    /\ \E c \in BagToSet(inflight) :
          LET t == fetchFailed([Fields EXCEPT !.inflight = @ (-) SetToBag({c})])
          IN  Commit([t EXCEPT !.lastFetch = [@ EXCEPT !.failed = TRUE]],
                     "failure",
                     [ok |-> FALSE, count |-> -1, call |-> c, added |-> "",
                      rejected |-> t.thrown])
    /\ UNCHANGED <<mounted, routeTerm, routeSearch>>
    /\ UNCHANGED <<sharedVars, hookVars>>

----------------------------------------------------------------------------
(* Shared document scene *)

\* at most this many fetchWithSharedTree calls are outstanding at once
MaxSharedInFlight == 2

ShareIds == {"s1", "s2"}
Slugs == {"doc-a", "doc-b"}
Edits == {Null, "true", "false"}
Errors == {"OfflineError", "AuthorizationError", "Error"}

\* React state before setResponse
NoResponse == [document |-> Undefined, shareId |-> Undefined]

\* Render looking at the response before the error
RenderResponseFirst(err, resp, ed, can) ==
    IF resp # NoResponse
    THEN IF ed = "true" /\ resp.document \in can THEN "Redirect" ELSE "Document"
    ELSE IF err = Undefined THEN "Loading"
    ELSE IF err = "OfflineError" THEN "ErrorOffline"
    ELSE IF err = "AuthorizationError" THEN "Login"
    ELSE "Error404"

\* Render redirecting on edit=true whatever the policy grants
RenderIgnoresUpdate(err, resp, ed, can) ==
    IF err # Undefined
    THEN IF err = "OfflineError" THEN "ErrorOffline"
         ELSE IF err = "AuthorizationError" THEN "Login"
         ELSE "Error404"
    ELSE IF resp = NoResponse THEN "Loading"
    ELSE IF ed = "true" THEN "Redirect"
    ELSE "Document"

\* what the function component returns
Render(err, resp, ed, can) ==
    IF err # Undefined
    THEN IF err = "OfflineError" THEN "ErrorOffline"
         ELSE IF err = "AuthorizationError" THEN "Login"
         ELSE "Error404"
    ELSE IF resp = NoResponse THEN "Loading"
    ELSE IF resp # NoResponse /\ ed = "true" /\ resp.document \in can
         THEN "Redirect"
         ELSE "Document"

\* SetCookie writing the cookie only while there is none
SetCookieOnce(v, path, old) == IF v = "Login" /\ old = Null THEN path ELSE old

\* the cookie after a render returning `v` at location `path`
SetCookie(v, path, old) == IF v = "Login" THEN path ELSE old

\* one render of the scene with the new props and state
Rerender ==
    /\ view' = Render(error', response', edit', canUpdate')
    /\ cookie' = SetCookie(view', pathname', cookie)

\* the scene is on screen (a Redirect leaves the shared route)
Shown == shMounted /\ view # "Redirect"

SharedInit ==
    /\ shMounted = FALSE
    /\ shareId \in ShareIds
    /\ documentSlug \in Slugs
    /\ pathname = <<shareId, documentSlug>>
    /\ edit \in Edits
    /\ canUpdate \in SUBSET Slugs
    /\ response = NoResponse
    /\ error = Undefined
    /\ shInflight = <<>>
    /\ cookie = Null
    /\ view = "Loading"
    /\ authPath = Null

\* the fetch effect after the first render
SharedMount ==
    /\ UNCHANGED <<searchVars, hookVars>>
    /\ ~shMounted
    /\ shMounted' = TRUE
    /\ shInflight' = Append(shInflight, [slug |-> documentSlug, shareId |-> shareId])
    /\ UNCHANGED <<shareId, documentSlug, pathname, edit, canUpdate, response,
                   error, cookie, view, authPath>>

\* SharedRouteChange abandoning the fetches in flight
SharedRouteChangeCancelling ==
    /\ UNCHANGED <<searchVars, hookVars>>
    /\ Shown
    /\ Len(shInflight) < MaxSharedInFlight
    /\ \E sh \in ShareIds, slug \in Slugs :
          /\ <<sh, slug>> # <<shareId, documentSlug>>
          /\ shareId' = sh
          /\ documentSlug' = slug
          /\ pathname' = <<sh, slug>>
          /\ shInflight' = <<[slug |-> slug, shareId |-> sh]>>
    /\ UNCHANGED <<shMounted, edit, canUpdate, response, error, authPath>>
    /\ Rerender

\* the router hands the scene another share or document: render, then the effect
SharedRouteChange ==
    /\ UNCHANGED <<searchVars, hookVars>>
    /\ Shown
    /\ Len(shInflight) < MaxSharedInFlight
    /\ \E sh \in ShareIds, slug \in Slugs :
          /\ <<sh, slug>> # <<shareId, documentSlug>>
          /\ shareId' = sh
          /\ documentSlug' = slug
          /\ pathname' = <<sh, slug>>
          /\ shInflight' = Append(shInflight, [slug |-> slug, shareId |-> sh])
    /\ UNCHANGED <<shMounted, edit, canUpdate, response, error, authPath>>
    /\ Rerender

\* the query string changes: render only
SharedQueryChange ==
    /\ UNCHANGED <<searchVars, hookVars>>
    /\ Shown
    /\ \E ed \in Edits : ed # edit /\ edit' = ed
    /\ UNCHANGED <<shMounted, shareId, documentSlug, pathname, canUpdate,
                   response, error, shInflight, authPath>>
    /\ Rerender

\* an outstanding fetch returns its bundle
SharedFetchSuccess ==
    /\ UNCHANGED <<searchVars, hookVars>>
    /\ Shown
    /\ \E i \in 1..Len(shInflight) :
          /\ response' = [document |-> shInflight[i].slug,
                          shareId |-> shInflight[i].shareId]
          /\ shInflight' = Remove(shInflight, i)
    /\ UNCHANGED <<shMounted, shareId, documentSlug, pathname, edit, canUpdate,
                   error, authPath>>
    /\ Rerender

\* an outstanding fetch throws
SharedFetchFailure ==
    /\ UNCHANGED <<searchVars, hookVars>>
    /\ Shown
    /\ \E i \in 1..Len(shInflight), err \in Errors :
          /\ error' = err
          /\ shInflight' = Remove(shInflight, i)
          /\ authPath' = IF err = "AuthorizationError" THEN pathname
                          ELSE authPath
    /\ UNCHANGED <<shMounted, shareId, documentSlug, pathname, edit, canUpdate,
                   response>>
    /\ Rerender

----------------------------------------------------------------------------
(* Shared document scene: useDocumentId *)

\* NavigationNode.url
NodeUrls == {<<"a", "b">>, <<"b", "a">>}
\* the documentSlug route parameter
HookSlugs == {<<>>, <<"a">>, <<"b">>, <<"a", "b">>, <<"a", "b", "a">>}

\* String.prototype.endsWith
EndsWith(str, suffix) ==
    /\ Len(suffix) <= Len(str)
    /\ SubSeq(str, Len(str) - Len(suffix) + 1, Len(str)) = suffix

\* documentId is left undefined
NoDocumentId == <<>>
\* the id of the root node; the id of a node is its position in the tree
RootId == <<1>>

RECURSIVE TreesOfSize(_, _)
RECURSIVE ForestsOfSize(_, _, _)
\* the sequences of nodes of `n` nodes in all, the first the child number `i`
\* of the node `id`
ForestsOfSize(n, id, i) ==
    IF n = 0 THEN {<<>>}
    ELSE UNION {{<<t>> \o f : t \in TreesOfSize(k, Append(id, i)),
                              f \in ForestsOfSize(n - k, id, i + 1)}
                : k \in 1..n}

\* the NavigationNodes of `n` nodes in all whose root has the id `id`; a node
\* without children has an empty children array or no children property
TreesOfSize(n, id) ==
    {[id |-> id, url |-> u, children |-> c] :
        u \in NodeUrls, c \in ForestsOfSize(n - 1, id, 1)}
    \cup (IF n = 1 THEN {[id |-> id, url |-> u] : u \in NodeUrls} ELSE {})

\* Response.sharedTree
SharedTrees == UNION {TreesOfSize(n, RootId) : n \in 1..MaxNodes}

\* the response argument of the hook
HookResponses ==
    {[loaded |-> FALSE], [loaded |-> TRUE]}
    \cup {[loaded |-> TRUE, sharedTree |-> t] : t \in SharedTrees}

\* findInTree returning false, documentId untouched
NotFound == [found |-> FALSE, documentId |-> NoDocumentId]

RECURSIVE findInTreeLastChildFirst(_, _)
RECURSIVE findInChildrenBackwards(_, _, _)
\* the for loop of findInTree run from the last child to the first
findInChildrenBackwards(children, i, slug) ==
    IF i < 1 THEN NotFound
    ELSE LET r == findInTreeLastChildFirst(children[i], slug)
         IN  IF r.found THEN r
             ELSE findInChildrenBackwards(children, i - 1, slug)

\* findInTree visiting the children in reverse order
findInTreeLastChildFirst(node, slug) ==
    IF EndsWith(node.url, slug)
    THEN [found |-> TRUE, documentId |-> node.id]
    ELSE IF "children" \in DOMAIN node
         THEN findInChildrenBackwards(node.children, Len(node.children), slug)
         ELSE NotFound

RECURSIVE findInTree(_, _)
RECURSIVE findInChildren(_, _, _)
\* for (const child of node.children) from the child number `i` on
findInChildren(children, i, slug) ==
    IF i > Len(children) THEN NotFound
    ELSE LET r == findInTree(children[i], slug)
         IN  IF r.found THEN r
             ELSE findInChildren(children, i + 1, slug)

\* findInTree: its return value and the documentId it leaves
findInTree(node, slug) ==
    IF EndsWith(node.url, slug)
    THEN [found |-> TRUE, documentId |-> node.id]
    ELSE IF "children" \in DOMAIN node
         THEN findInChildren(node.children, 1, slug)
         ELSE NotFound

\* useDocumentId(documentSlug, response)
useDocumentId(slug, resp) ==
    IF resp.loaded /\ "sharedTree" \in DOMAIN resp
    THEN findInTree(resp.sharedTree, slug).documentId
    ELSE NoDocumentId

\* the first render: no response yet
HookInit ==
    /\ hookResponse = [loaded |-> FALSE]
    /\ hookSlug \in HookSlugs
    /\ documentId = useDocumentId(hookSlug, hookResponse)

\* setResponse of the first fetch to complete, followed by the render
HookResponse ==
    /\ ~hookResponse.loaded
    /\ hookResponse' \in HookResponses \ {[loaded |-> FALSE]}
    /\ hookSlug' = hookSlug
    /\ documentId' = useDocumentId(hookSlug', hookResponse')
    /\ UNCHANGED <<searchVars, sharedVars>>

\* a route change of documentSlug followed by the render
HookSlugChange ==
    /\ hookSlug' \in HookSlugs \ {hookSlug}
    /\ hookResponse' = hookResponse
    /\ documentId' = useDocumentId(hookSlug', hookResponse')
    /\ UNCHANGED <<searchVars, sharedVars>>

----------------------------------------------------------------------------
(* Specifications *)

\* the Search scene alone, the shared document scene not on screen
Init ==
    /\ SearchInit
    /\ SharedInit /\ shareId = "s1" /\ documentSlug = "doc-a"
    /\ edit = Null /\ canUpdate = {}
    /\ HookInit /\ hookSlug = <<>>

Next ==
    \/ ComponentDidMount
    \/ ComponentDidUpdate
    \/ HandleKeyDown
    \/ HandleFilterChange
    \/ LoadMoreResults
    \/ FetchSuccess
    \/ FetchFailure

Spec == Init /\ [][Next]_vars

\* the shared document scene alone, the Search scene not on screen
SharedSpecInit ==
    /\ SharedInit
    /\ SearchInit /\ routeTerm = "" /\ routeSearch = NoSearch
    /\ HookInit /\ hookSlug = <<>>

SharedNext ==
    \/ SharedMount
    \/ SharedRouteChange
    \/ SharedQueryChange
    \/ SharedFetchSuccess
    \/ SharedFetchFailure

SharedSpec == SharedSpecInit /\ [][SharedNext]_vars

\* the useDocumentId hook alone, over every tree and slug
HookSpecInit ==
    /\ HookInit
    /\ SearchInit /\ routeTerm = "" /\ routeSearch = NoSearch
    /\ SharedInit /\ shareId = "s1" /\ documentSlug = "doc-a"
    /\ edit = Null /\ canUpdate = {}

HookNext ==
    \/ HookResponse
    \/ HookSlugChange

HookSpec == HookSpecInit /\ [][HookNext]_vars

----------------------------------------------------------------------------
(* Search scene: properties *)

Handlers == {"componentDidMount", "componentDidUpdate", "handleKeyDown",
             "handleFilterChange", "loadMoreResults"}

\* the fetchResults invocations of the most recent step
Entries == {last.log[i] : i \in 1..Len(last.log)}

\* the fetchResults invocation before the i-th one of log, lf being the most
\* recent invocation of the steps before
PrevOf(log, lf, i) ==
    IF i = 1
    THEN lf
    ELSE [valid |-> TRUE, query |-> log[i - 1].query,
          params |-> log[i - 1].params, failed |-> FALSE]

\* C1: whenever handleTermChange or handleQueryChange runs, offset is 0 and
\* allowLoadMore is true at the moment of its fetchResults call, and a search
\* call issued by that call carries offset 0.
C1_ResetBeforeFetch ==
    \A e \in Entries :
        e.by \in {"handleTermChange", "handleQueryChange"}
            => /\ e.offset = 0
               /\ e.allowLoadMore
               /\ e.issued > 0 => e.call.params.offset = 0

\* C1 witness: a filter change has run handleQueryChange, whose fetchResults
\* call issued the search for the new filters at offset 0.
C1_Witness ==
    /\ last.op = "handleFilterChange"
    /\ \E e \in Entries :
          /\ e.by = "handleQueryChange"
          /\ e.issued = 1
          /\ e.call.params.includeArchived
          /\ e.call.params.offset = 0

\* C2 as stated: of two consecutive fetchResults calls with a non-empty query
\* and identical (query, params), the second issues no search call and leaves
\* isLoading false, whether or not the first has completed.
C2_SecondCallSkipped ==
    [][\A i \in 1..Len(last'.log) :
          LET e == last'.log[i]
              p == PrevOf(last'.log, lastFetch, i)
          IN  (p.valid /\ e.query # "" /\ p.query = e.query
                 /\ p.params = e.params)
                  => e.issued = 0 /\ ~e.loadingAfter]_vars

\* C2 amended: the same, provided no search call has failed between the two
\* fetchResults calls.
C2_SecondCallSkippedUnlessFailed ==
    [][\A i \in 1..Len(last'.log) :
          LET e == last'.log[i]
              p == PrevOf(last'.log, lastFetch, i)
          IN  (p.valid /\ ~p.failed /\ e.query # "" /\ p.query = e.query
                 /\ p.params = e.params)
                  => e.issued = 0 /\ ~e.loadingAfter]_vars

\* C2 witness: Enter has called fetchResults for the query and parameters of
\* the call that is still outstanding: nothing was issued, isLoading is false.
C2_Witness ==
    /\ last.op = "handleKeyDown"
    /\ Len(last.log) = 1
    /\ last.log[1].query # ""
    /\ last.log[1].issued = 0
    /\ ~isLoading
    /\ lastFetch.valid /\ ~lastFetch.failed
    /\ BagToSet(inflight) = {[query |-> last.log[1].query,
                              params |-> last.log[1].params]}

\* the step follows the successful completion of a full page, and its first
\* fetchResults call e is made by a method that changes neither term nor
\* filters, for the query and the filters of the completed call
RefetchAfterFullPage(e) ==
    /\ last.op = "success"
    /\ last.done.count = DEFAULT_PAGINATION_LIMIT
    /\ allowLoadMore
    /\ e.by \in {"handleKeyDown", "loadMoreResults"}
    /\ e.query = last.done.call.query
    /\ Filters(e.params) = Filters(last.done.call.params)

\* C3 as stated: after a fetch has completed with a full page, fetchResults
\* called again with the same query and filters issues no search call.
C3_RefetchIssuesNothing ==
    [][Len(last'.log) > 0 /\ RefetchAfterFullPage(last'.log[1])
          => last'.log[1].issued = 0]_vars

\* C3 amended: after a fetch has completed with a full page, fetchResults
\* called again with the same query and filters is not skipped: the offset has
\* advanced, and exactly one search call is issued, for the page at that offset.
C3_RefetchIssuesNextPage ==
    [][Len(last'.log) > 0 /\ RefetchAfterFullPage(last'.log[1])
          => /\ last'.log[1].issued = 1
             /\ last'.log[1].call.query = last.done.call.query
             /\ Filters(last'.log[1].call.params)
                   = Filters(last.done.call.params)
             /\ last'.log[1].call.params.offset = offset
             /\ offset >= DEFAULT_PAGINATION_LIMIT]_vars

\* C3 witness: right after a successful completion, Enter with the query
\* unchanged has issued the search for the second page.
C3_Witness ==
    /\ last.op = "handleKeyDown"
    /\ last.after = "success"
    /\ Len(last.log) = 1
    /\ last.log[1].issued = 1
    /\ last.log[1].call.params.offset = DEFAULT_PAGINATION_LIMIT

\* C4: on the successful completion of a search call, a count of at least the
\* page size leaves allowLoadMore as it was (true stays true) and advances
\* offset by exactly the page size; a smaller count (0 included) makes
\* allowLoadMore false and leaves offset unchanged.
C4_PageAccounting ==
    [][last'.op = "success"
          => IF last'.done.count >= DEFAULT_PAGINATION_LIMIT
             THEN /\ allowLoadMore' = allowLoadMore
                  /\ offset' = offset + DEFAULT_PAGINATION_LIMIT
             ELSE /\ ~allowLoadMore'
                  /\ offset' = offset]_vars

\* C4 witness: a full page has completed, allowLoadMore is still true and the
\* offset stands one page further.
C4_Witness ==
    /\ last.op = "success"
    /\ last.done.count = DEFAULT_PAGINATION_LIMIT
    /\ allowLoadMore
    /\ offset = last.done.call.params.offset + DEFAULT_PAGINATION_LIMIT

\* C5: when a search call fails, lastQuery is reset to empty, the error is
\* rethrown, offset and allowLoadMore are unchanged, and a fetchResults call
\* that follows with the (query, params) of the failed call issues a new call.
C5_FailureResetsGuard ==
    [][/\ last'.op = "failure"
          => /\ lastQuery' = ""
             /\ last'.done.rejected
             /\ offset' = offset
             /\ allowLoadMore' = allowLoadMore
       /\ (/\ last.op = "failure"
           /\ Len(last'.log) > 0
           /\ last'.log[1].query = last.done.call.query
           /\ last'.log[1].params = last.done.call.params)
          => /\ last'.log[1].issued = 1
             /\ last'.log[1].call = last.done.call]_vars

\* C5 witness: right after a failure, Enter with the query unchanged has
\* issued the search again.
C5_Witness ==
    /\ last.op = "handleKeyDown"
    /\ last.after = "failure"
    /\ Len(last.log) = 1
    /\ last.log[1].issued = 1
    /\ last.log[1].call = [query |-> last.log[1].query,
                           params |-> last.log[1].params]

\* C6: a fetchResults call made while query is empty issues no search call,
\* sets isLoading to false, records the last query as empty and leaves offset
\* and allowLoadMore unchanged.
C6_EmptyQuery ==
    \A e \in Entries :
        e.query = ""
            => /\ e.issued = 0
               /\ ~e.loadingAfter
               /\ e.lastQueryAfter = ""
               /\ e.offsetAfter = e.offset
               /\ e.allowAfter = e.allowLoadMore

\* C6 witness: the term was emptied while a search was outstanding;
\* handleTermChange called fetchResults with the empty query.
C6_Witness ==
    /\ inflight # EmptyBag
    /\ query = ""
    /\ lastQuery = ""
    /\ ~isLoading
    /\ \E e \in Entries : e.by = "handleTermChange" /\ e.query = ""

\* the fields of the component and the outstanding calls
componentVars == <<query, params, offset, allowLoadMore, isLoading, lastQuery,
            lastParams, inflight>>

\* C7: loadMoreResults issues a search call only if allowLoadMore is true and
\* isLoading is false when it is invoked; otherwise it changes no state and
\* issues no call.
C7_LoadMoreGuard ==
    [][last'.op = "loadMoreResults" /\ ~(allowLoadMore /\ ~isLoading)
          => /\ last'.log = <<>>
             /\ UNCHANGED componentVars]_vars

\* C7 witness: loadMoreResults was invoked during a fetch and did nothing.
C7_Witness ==
    /\ last.op = "loadMoreResults"
    /\ last.log = <<>>
    /\ allowLoadMore
    /\ isLoading
    /\ inflight # EmptyBag

\* C8: every fetchResults call ends with isLoading false on each path: at
\* once when the query is empty or the call is skipped, at the completion of
\* the search otherwise; so isLoading is false whenever no search call is
\* outstanding.
C8_LoadingCleared ==
    /\ \A e \in Entries : e.issued = 0 => ~e.loadingAfter
    /\ last.op \in {"success", "failure"} => ~isLoading
    /\ inflight = EmptyBag => ~isLoading

\* C8 witness: the only outstanding search has failed; isLoading is false.
C8_Witness ==
    /\ last.op = "failure"
    /\ inflight = EmptyBag
    /\ ~isLoading

----------------------------------------------------------------------------
(* Shared document scene: properties *)

\* C9 as stated: the scene never holds both a response and an error.
C9_OneOutcome == ~(response # NoResponse /\ error # Undefined)

\* C10: the render state is selected first match first: OfflineError gives the
\* offline fallback, AuthorizationError the login prompt, any other error the
\* not-found fallback, no error and no response the loading state; a recorded
\* error takes precedence over a recorded response.
C10_RenderOrder ==
    /\ error = "OfflineError" => view = "ErrorOffline"
    /\ error = "AuthorizationError" => view = "Login"
    /\ error \notin {Undefined, "OfflineError", "AuthorizationError"}
          => view = "Error404"
    /\ error = Undefined /\ response = NoResponse => view = "Loading"
    /\ error = Undefined /\ response # NoResponse
          => view \in {"Redirect", "Document"}

\* C10 witness: a response and an OfflineError are both recorded, and the
\* offline fallback is what is rendered.
C10_Witness ==
    /\ response # NoResponse
    /\ error = "OfflineError"
    /\ view = "ErrorOffline"

\* C11 as stated: once a fetch has failed with AuthorizationError, the cookie
\* holds the path that was active at the time of the failure, whatever renders
\* and route changes follow.
C11_CookieKeepsFailurePath ==
    authPath # Null => cookie = authPath

\* C11 amended: the failure with AuthorizationError writes the path active at
\* that time; every later render of the login prompt writes the path active at
\* that render, and a render of any other state leaves the cookie as it is.
C11_CookieFollowsLoginRender ==
    [][/\ (authPath' # authPath) => cookie' = pathname /\ cookie' = authPath'
       /\ view' = "Login" => cookie' = pathname'
       /\ view' # "Login" => cookie' = cookie]_vars

\* C11 witness: the route has changed while the login prompt is shown, and the
\* cookie holds the new path, not the one of the failure.
C11_Witness ==
    /\ view = "Login"
    /\ authPath # Null
    /\ pathname # authPath
    /\ cookie = pathname

\* response loaded, edit=true present and can.update granted
EditRequested ==
    /\ response # NoResponse
    /\ edit = "true"
    /\ response.document \in canUpdate

\* C12 as stated: the redirect is rendered exactly when a response is loaded,
\* edit equals "true" and update is granted; when one of the three is absent
\* the shared read-only view is rendered.
C12_RedirectIffThree ==
    /\ view = "Redirect" <=> EditRequested
    /\ ~EditRequested => view = "Document"

\* C12 amended: the redirect is rendered exactly when no error is recorded and
\* the three hold; the shared read-only view is rendered exactly when no error
\* is recorded, a response is loaded and edit=true or update is absent.
C12_RedirectIffThreeAndNoError ==
    /\ view = "Redirect" <=> (error = Undefined /\ EditRequested)
    /\ view = "Document" <=>
          (error = Undefined /\ response # NoResponse /\ ~EditRequested)

\* C12 witness: the three hold with no error and the redirect is rendered.
C12_Witness ==
    /\ error = Undefined
    /\ EditRequested
    /\ view = "Redirect"

RECURSIVE PreOrder(_)
RECURSIVE PreOrderAll(_, _)
\* the nodes of the children from number `i` on, each subtree in pre-order
PreOrderAll(children, i) ==
    IF i > Len(children) THEN <<>>
    ELSE PreOrder(children[i]) \o PreOrderAll(children, i + 1)

\* the nodes of a tree in depth-first pre-order
PreOrder(node) ==
    <<node>> \o (IF "children" \in DOMAIN node
                 THEN PreOrderAll(node.children, 1) ELSE <<>>)

\* the node `p` is an ancestor of `q`, or lies in an earlier sibling subtree
Precedes(p, q) ==
    \/ Len(p) < Len(q) /\ SubSeq(q, 1, Len(p)) = p
    \/ \E i \in 1..Len(p) :
          /\ i <= Len(q)
          /\ SubSeq(p, 1, i - 1) = SubSeq(q, 1, i - 1)
          /\ p[i] < q[i]

\* C13: the hook returns the id of the first node in depth-first pre-order
\* whose url ends with documentSlug (before every other matching node: an
\* ancestor before its descendants, an earlier sibling subtree before a later
\* one), and nothing with no response, no sharedTree or no matching node.
C13_FirstInPreOrder ==
    IF hookResponse.loaded /\ "sharedTree" \in DOMAIN hookResponse
    THEN LET order == PreOrder(hookResponse.sharedTree)
             hits == {i \in 1..Len(order) : EndsWith(order[i].url, hookSlug)}
         IN  IF hits = {} THEN documentId = NoDocumentId
             ELSE /\ \E i \in hits :
                        /\ documentId = order[i].id
                        /\ \A j \in hits : i <= j
                  /\ \A j \in hits :
                        order[j].id # documentId
                           => Precedes(documentId, order[j].id)
    ELSE documentId = NoDocumentId

\* C13 witness: the root does not match, a node of the first subtree and a
\* node of the second subtree both match, and the first one is returned.
C13_Witness ==
    /\ hookResponse.loaded /\ "sharedTree" \in DOMAIN hookResponse
    /\ LET root == hookResponse.sharedTree
       IN  /\ ~EndsWith(root.url, hookSlug)
           /\ "children" \in DOMAIN root
           /\ Len(root.children) = 2
           /\ ~EndsWith(root.children[1].url, hookSlug)
           /\ EndsWith(root.children[2].url, hookSlug)
           /\ "children" \in DOMAIN root.children[1]
           /\ Len(root.children[1].children) = 1
           /\ EndsWith(root.children[1].children[1].url, hookSlug)
           /\ documentId = <<1, 1, 1>>

\* C14: a change of documentSlug or shareId adds its fetch to the ones in
\* flight and removes none; a fetch that returns its bundle records it as the
\* response whatever was recorded before and whatever route is current, and
\* a fetch that throws leaves the response as it was.
C14_LastCompletionWins ==
    [][/\ (documentSlug' # documentSlug \/ shareId' # shareId)
            => shInflight' = Append(shInflight, [slug |-> documentSlug',
                                                 shareId |-> shareId'])
       /\ Len(shInflight') < Len(shInflight)
            => \E i \in 1..Len(shInflight) :
                  /\ shInflight' = Remove(shInflight, i)
                  /\ \/ response' = [document |-> shInflight[i].slug,
                                     shareId |-> shInflight[i].shareId]
                     \/ response' = response /\ error' # Undefined]_vars

\* C14 witness: every fetch has returned its bundle, the one for the current
\* slug among them, and the recorded response is that of an older slug.
C14_Witness ==
    /\ shMounted
    /\ shInflight = <<>>
    /\ error = Undefined
    /\ response # NoResponse
    /\ response.document # documentSlug

C16_EnterSearchesTypedText ==
    [][last'.op = "handleKeyDown" =>
         \E text \in Typed :
            /\ routeTerm' = searchUrl(text)
            /\ \A i \in 1..Len(last'.log) :
                  last'.log[i].issued > 0 => last'.log[i].call.query = text]_vars

\* C17 as stated (its second sentence): the completion of a search call
\* advances the offset only when the call is the one for the current query and
\* filters at the current offset; the completion of a call issued before a
\* reset, or of the other call of the same mount or update, leaves it.
C17_OnlyCurrentPageAdvances ==
    [][(last'.op = "success" /\ offset' # offset) =>
         last'.done.call = SearchCall(Fields, BuildParams(Fields))]_vars

\* C18 as stated: isLoading is true whenever a search call is in flight.
C18_LoadingWhileInFlight ==
    BagCardinality(inflight) > 0 => isLoading

\* C19 as stated: the entry added to the recent searches on a successful
\* search carries the query sent to the service in that call.
C19_EntryIsQuerySent ==
    [][(last'.op = "success" /\ last'.done.ok) =>
         last'.done.added = last'.done.call.query]_vars

====
